---------------------------- MODULE Spec2Model ----------------------------
(***************************************************************************)
(* Context-budget accounting (AiderSessionInfo) and the recursive context  *)
(* fitting of AiderMixin.get_aider_session.                                *)
(*                                                                         *)
(* The assistant engine (aider's Coder / Commands / Model / InputOutput)   *)
(* is a collaborator of the code.  It is modelled by what the code reads   *)
(* from it: the two tracked file sets, the chat history, the model         *)
(* metadata and the token counters.  Token counts are tables over a small  *)
(* universe of files.                                                      *)
(*                                                                         *)
(* Two specifications share the variables:                                 *)
(*   Spec     one Aider session whose file sets and chat are mutated and   *)
(*            whose snapshot is reloaded;                                  *)
(*   FitSpec  one get_aider_session call, one step per invocation of the   *)
(*            nested _get_aider_session.                                   *)
(***************************************************************************)
EXTENDS Integers, Sequences, FiniteSets, TLC

VARIABLES
    model_info,       \* coder.main_model.info: a dict, keys may be absent
    map_tokens,       \* Aider(repo_map_tokens=...): 0 means coder.repo_map is None
    coder,            \* engine state: abs_fnames, abs_read_only_fnames, messages
    info,             \* the AiderSessionInfo attributes set by reset()/load()
    loaded_coder,     \* history: the engine state the last load() read
    was_read_only,    \* history: paths that have been in abs_read_only_fnames
    pc,               \* position of get_aider_session
    read_files,       \* argument of the pending / last _get_aider_session call
    orig_read_files,  \* self.read_files
    write_files,      \* self.write_files
    write_tokens,     \* self.write_tokens
    error_if_no_context,
    constructions     \* history: number of Aider(...) constructions so far

vars == <<model_info, map_tokens, coder, info, loaded_coder, was_read_only, pc,
          read_files, orig_read_files, write_files, write_tokens,
          error_if_no_context, constructions>>

fitvars == <<pc, read_files, orig_read_files, write_files, write_tokens,
             error_if_no_context, constructions>>

-----------------------------------------------------------------------------
(* Bounds *)

MaxCandidates == 3

MaxWrite == 2

MaxAdd == 2

MaxChat == 1

-----------------------------------------------------------------------------
(* The file universe and what the engine's collaborators report about it. *)

AllPaths == {"/repo/a.py", "/repo/b.py", "/repo/c.py", "/repo/i.png",
             "/repo/w.py", "/repo/x.py", "/ext/n.md", "/ext/u.bin"}

\* coder.get_rel_fname: path relative to the repository root.
get_rel_fname(p) ==
    CASE p = "/repo/a.py"  -> "a.py"
      [] p = "/repo/b.py"  -> "b.py"
      [] p = "/repo/c.py"  -> "c.py"
      [] p = "/repo/i.png" -> "i.png"
      [] p = "/repo/w.py"  -> "w.py"
      [] p = "/repo/x.py"  -> "x.py"
      [] p = "/ext/n.md"   -> "../ext/n.md"
      [] p = "/ext/u.bin"  -> "../ext/u.bin"

\* aider.utils.is_image_file, on the relative name.
is_image_file(rel) == rel \in {"i.png"}

\* io.read_text returns None for a file it cannot read or decode.  The one
\* such file lies outside the repository, so it is never writable: load()
\* concatenates the content of a writable text file without testing it.
read_text_is_none(p) == p \in {"/ext/u.bin"}

\* repo.path_in_repo: whether the engine's git repository tracks the path.
path_in_repo(p) == p \in {"/repo/a.py", "/repo/b.py", "/repo/c.py",
                          "/repo/i.png", "/repo/w.py", "/repo/x.py"}

\* coder.get_all_abs_files(): the files the repository tracks.
get_all_abs_files == {p \in AllPaths : path_in_repo(p)}

\* main_model.token_count of the raw content of a file.
content_tokens(p) ==
    CASE p = "/repo/a.py"  -> 390
      [] p = "/repo/b.py"  -> 290
      [] p = "/repo/c.py"  -> 240
      [] p = "/repo/i.png" -> 700
      [] p = "/repo/w.py"  -> 490
      [] p = "/repo/x.py"  -> 1090
      [] p = "/ext/n.md"   -> 140
      [] p = "/ext/u.bin"  -> 0

\* main_model.token_count of "<rel>\n```\n" + content + "```\n": the path
\* line and the two fences cost tokens on top of the content.
render_tokens(p) == 10 + content_tokens(p)

\* main_model.token_count_for_image.
token_count_for_image(p) == 85

\* main_model.token_count of the two system messages: the main prompt plus
\* the reminder in the first message, the reminder again in the second.
get_system_messages_tokens ==
    LET main_system == 100
        system_reminder == 50
    IN  (main_system + system_reminder) + system_reminder

\* main_model.token_count(done_messages + cur_messages) for n messages.
messages_tokens(n) == 75 * n

\* main_model.token_count(repo_map.get_repo_map(chat_files, other_files)):
\* the map is empty when there are no other files.
repo_map_content_tokens(other_files) == 20 * Cardinality(other_files)

\* main_model.info.get(key): <<>> stands for None, <<v>> for the value v.
info_get(d, key) == IF key \in DOMAIN d THEN <<d[key]>> ELSE <<>>

\* Python's  x or 0  on an optional number.
or_zero(opt) == IF opt = <<>> THEN 0 ELSE opt[1]

ModelInfos ==
    { [supports_vision |-> v] : v \in BOOLEAN } \cup
    { [supports_vision |-> v, input_cost_per_token |-> 3] : v \in BOOLEAN } \cup
    { [supports_vision |-> v, max_input_tokens |-> 1000] : v \in BOOLEAN } \cup
    { [supports_vision |-> v, input_cost_per_token |-> 3,
       max_input_tokens |-> 1000] : v \in BOOLEAN }

-----------------------------------------------------------------------------
(* AiderFileInfo and AiderSessionInfo *)

AiderFileInfo(name, tokens, unit_cost, readonly) ==
    [name |-> name, readonly |-> readonly, tokens |-> tokens,
     cost |-> tokens * unit_cost]

token_unit_cost(mi) == or_zero(info_get(mi, "input_cost_per_token"))

max_tokens(mi) == or_zero(info_get(mi, "max_input_tokens"))

\* self.files[key] = record: a dict holds one value per key.
files_put(files, rec) == {r \in files : r.name # rec.name} \cup {rec}

\* The attributes of a snapshot object before its first reset(): load() never
\* reads them.
new_info ==
    [system_tokens |-> 0, system_token_cost |-> 0,
     chat_tokens |-> 0, chat_token_cost |-> 0,
     repo_map_tokens |-> 0, repo_map_token_cost |-> 0,
     total_tokens |-> 0, total_cost |-> 0,
     remaining_tokens |-> 0, files |-> {}]

\* reset() that leaves the attributes of the earlier load in place.
reset_keeps(prev) == prev

reset(prev) ==
    [prev EXCEPT !.system_tokens = 0, !.system_token_cost = 0,
                 !.chat_tokens = 0, !.chat_token_cost = 0,
                 !.repo_map_tokens = 0, !.repo_map_token_cost = 0,
                 !.total_tokens = 0, !.total_cost = 0,
                 !.remaining_tokens = 0, !.files = {}]

\* A writable file recorded with the read-only flag.
write_record_readonly(p, mi) ==
    LET rel == get_rel_fname(p)
        tokens == IF is_image_file(rel) THEN token_count_for_image(p)
                  ELSE render_tokens(p)
    IN  AiderFileInfo(rel, tokens, token_unit_cost(mi), TRUE)

\* The record load() makes for a writable file.
write_record(p, mi) ==
    LET rel == get_rel_fname(p)
        tokens == IF is_image_file(rel) THEN token_count_for_image(p)
                  ELSE render_tokens(p)
    IN  AiderFileInfo(rel, tokens, token_unit_cost(mi), FALSE)

\* The read-only loop without its image test.
read_record_made_images(p) == ~read_text_is_none(p)

\* Whether load() makes a record for a read-only file.
read_record_made(p) ==
    ~read_text_is_none(p) /\ ~is_image_file(get_rel_fname(p))

\* The record load() makes for a read-only file.
read_record(p, mi) ==
    AiderFileInfo(get_rel_fname(p), render_tokens(p), token_unit_cost(mi), TRUE)

RECURSIVE load_write_files(_, _, _)
load_write_files(files, todo, mi) ==
    IF todo = {} THEN files
    ELSE LET p == CHOOSE q \in todo : TRUE
         IN  load_write_files(files_put(files, write_record(p, mi)),
                              todo \ {p}, mi)

RECURSIVE load_read_files(_, _, _)
load_read_files(files, todo, mi) ==
    IF todo = {} THEN files
    ELSE LET p == CHOOSE q \in todo : TRUE
             next == IF read_record_made(p)
                     THEN files_put(files, read_record(p, mi))
                     ELSE files
         IN  load_read_files(next, todo \ {p}, mi)

\* for file_path, info in self.files.items(): total += info.<field>
RECURSIVE add_file_totals(_, _, _)
add_file_totals(acc, recs, field) ==
    IF recs = {} THEN acc
    ELSE LET r == CHOOSE q \in recs : TRUE
         IN  add_file_totals(acc + r[field], recs \ {r}, field)

\* The base total without the repository map.
base_total_tokens_no_map(s) == s.system_tokens + s.chat_tokens

\* total_tokens before the files are added.
base_total_tokens(s) == s.system_tokens + s.chat_tokens + s.repo_map_tokens

\* total_cost before the files are added.
base_total_cost(s) ==
    s.system_token_cost + s.chat_token_cost + s.repo_map_token_cost

load(prev, c, mi, mt) ==
    LET r0 == reset(prev)
        unit == token_unit_cost(mi)
        sys == get_system_messages_tokens
        r1 == [r0 EXCEPT !.system_tokens = sys, !.system_token_cost = sys * unit]
        r2 == IF c.messages > 0
              THEN [r1 EXCEPT !.chat_tokens = messages_tokens(c.messages),
                              !.chat_token_cost = messages_tokens(c.messages) * unit]
              ELSE r1
        other == get_all_abs_files \ c.abs_fnames
        repo == repo_map_content_tokens(other)
        r3 == IF mt > 0 /\ repo > 0
              THEN [r2 EXCEPT !.repo_map_tokens = repo,
                              !.repo_map_token_cost = repo * unit]
              ELSE r2
        f1 == load_write_files(r3.files, c.abs_fnames, mi)
        f2 == load_read_files(f1, c.abs_read_only_fnames, mi)
        total == add_file_totals(base_total_tokens(r3), f2, "tokens")
        cost == add_file_totals(base_total_cost(r3), f2, "cost")
    IN  [r3 EXCEPT !.files = f2, !.total_tokens = total, !.total_cost = cost,
                   !.remaining_tokens = max_tokens(mi) - total]

export(s, mi) ==
    [token_unit_cost |-> token_unit_cost(mi),
     system_tokens |-> s.system_tokens,
     system_token_cost |-> s.system_token_cost,
     chat_tokens |-> s.chat_tokens,
     repo_map_tokens |-> s.repo_map_tokens,
     repo_map_token_cost |-> s.repo_map_token_cost,
     total_tokens |-> s.total_tokens,
     total_cost |-> s.total_cost,
     max_tokens |-> max_tokens(mi),
     remaining_tokens |-> s.remaining_tokens,
     files |-> s.files]

-----------------------------------------------------------------------------
(* The engine commands the session calls (aider's Commands), as far as they *)
(* change the two file sets and the chat history.                          *)

\* Coder.create(...): nothing tracked, no messages.
new_coder == [abs_fnames |-> {}, abs_read_only_fnames |-> {}, messages |-> 0]

\* Commands.cmd_add(path): a tracked writable path is left alone; a read-only
\* path moves to the writable set when the repository holds it and is refused
\* otherwise; a new path is refused when it lies outside the repository, is
\* an image the model cannot see, or cannot be read.
cmd_add(c, p, mi) ==
    IF p \in c.abs_fnames THEN c
    ELSE IF p \in c.abs_read_only_fnames
    THEN IF path_in_repo(p)
         THEN [c EXCEPT !.abs_read_only_fnames = @ \ {p},
                        !.abs_fnames = @ \cup {p}]
         ELSE c
    ELSE IF ~path_in_repo(p) THEN c
    ELSE IF is_image_file(get_rel_fname(p)) /\ ~mi.supports_vision THEN c
    ELSE IF read_text_is_none(p) THEN c
    ELSE [c EXCEPT !.abs_fnames = @ \cup {p}]

\* Commands.cmd_read_only(path): an image the model cannot see is refused; a
\* writable path moves to the read-only set; a new path is added.
cmd_read_only(c, p, mi) ==
    IF is_image_file(get_rel_fname(p)) /\ ~mi.supports_vision THEN c
    ELSE IF p \in c.abs_read_only_fnames THEN c
    ELSE [c EXCEPT !.abs_fnames = @ \ {p},
                   !.abs_read_only_fnames = @ \cup {p}]

RECURSIVE cmd_add_each(_, _, _)
cmd_add_each(c, files, mi) ==
    IF files = <<>> THEN c
    ELSE cmd_add_each(cmd_add(c, Head(files), mi), Tail(files), mi)

RECURSIVE cmd_read_only_each(_, _, _)
cmd_read_only_each(c, files, mi) ==
    IF files = <<>> THEN c
    ELSE cmd_read_only_each(cmd_read_only(c, Head(files), mi), Tail(files), mi)

-----------------------------------------------------------------------------
(* Aider: a session is the pair of its engine state and its snapshot. *)

add_write_files(s, files, mi, mt) ==
    LET c == cmd_add_each(s.coder, files, mi)
    IN  [coder |-> c, info |-> load(s.info, c, mi, mt)]

add_read_files(s, files, mi, mt) ==
    LET c == cmd_read_only_each(s.coder, files, mi)
    IN  [coder |-> c, info |-> load(s.info, c, mi, mt)]

\* Aider.__init__ / Aider._start
start(wf, rf, mi, mt) ==
    LET s0 == [coder |-> new_coder, info |-> load(new_info, new_coder, mi, mt)]
        s1 == IF wf # <<>> THEN add_write_files(s0, wf, mi, mt) ELSE s0
    IN  IF rf # <<>> THEN add_read_files(s1, rf, mi, mt) ELSE s1

\* Sequences over S of length lo..hi.
SeqsBetween(S, lo, hi) == UNION { [1..n -> S] : n \in lo..hi }

\* The same without a path named twice.
DistinctSeqsBetween(S, lo, hi) ==
    {q \in SeqsBetween(S, lo, hi) :
        \A i, j \in 1..Len(q) : q[i] = q[j] => i = j}

-----------------------------------------------------------------------------
(* Spec: one Aider session. *)

SessionPaths == {"/repo/a.py", "/repo/i.png", "/ext/n.md", "/ext/u.bin"}

MapTokenChoices == {0, 1024}

\* The snapshot is fresh when the engine has not changed since load() ran.
Fresh == loaded_coder = coder

Init ==
    /\ model_info \in ModelInfos
    /\ map_tokens \in MapTokenChoices
    /\ \E wf \in SeqsBetween(SessionPaths, 0, 1),
          rf \in SeqsBetween(SessionPaths, 0, 1) :
          LET s == start(wf, rf, model_info, map_tokens)
          IN  /\ coder = s.coder
              /\ info = s.info
              /\ loaded_coder = s.coder
              /\ was_read_only = s.coder.abs_read_only_fnames
    /\ pc = "idle"
    /\ read_files = <<>>
    /\ orig_read_files = <<>>
    /\ write_files = <<>>
    /\ write_tokens = 0
    /\ error_if_no_context = TRUE
    /\ constructions = 0

\* The session after one of its operations that reloads the snapshot.
Loaded(s) ==
    /\ coder' = s.coder
    /\ info' = s.info
    /\ loaded_coder' = s.coder
    /\ was_read_only' = was_read_only \cup s.coder.abs_read_only_fnames
    /\ UNCHANGED <<model_info, map_tokens>>
    /\ UNCHANGED fitvars

\* The engine after a command that leaves the snapshot alone.
Ran(c) ==
    /\ coder' = c
    /\ UNCHANGED <<info, loaded_coder, was_read_only, model_info, map_tokens>>
    /\ UNCHANGED fitvars

AddWriteFiles ==
    \E files \in DistinctSeqsBetween(SessionPaths, 0, MaxAdd) :
        Loaded(add_write_files([coder |-> coder, info |-> info], files,
                               model_info, map_tokens))

AddReadFiles ==
    \E files \in DistinctSeqsBetween(SessionPaths, 0, MaxAdd) :
        Loaded(add_read_files([coder |-> coder, info |-> info], files,
                              model_info, map_tokens))

\* session.info.load()
Reload ==
    Loaded([coder |-> coder, info |-> load(info, coder, model_info, map_tokens)])

\* run("ask" | "architect" | "code", message): the chat history grows.
RunMessage ==
    /\ coder.messages < MaxChat
    /\ Ran([coder EXCEPT !.messages = @ + 1])

\* run("clear"): the chat history is emptied.
RunClear ==
    /\ coder.messages > 0
    /\ Ran([coder EXCEPT !.messages = 0])

\* run("drop", path): the path leaves both file sets.
RunDrop ==
    \E p \in coder.abs_fnames \cup coder.abs_read_only_fnames :
        Ran([coder EXCEPT !.abs_fnames = @ \ {p},
                          !.abs_read_only_fnames = @ \ {p}])

Next ==
    \/ AddWriteFiles
    \/ AddReadFiles
    \/ Reload
    \/ RunMessage
    \/ RunClear
    \/ RunDrop

Spec == Init /\ [][Next]_vars

-----------------------------------------------------------------------------
(* FitSpec: AiderMixin.get_aider_session.  Each step is one invocation of  *)
(* the nested _get_aider_session: it constructs the Aider session for      *)
(* read_files and then recurses, fails or returns.                         *)

ReadCandidates == {"/repo/a.py", "/repo/b.py", "/repo/c.py", "/repo/i.png"}

WriteCandidates == {"/repo/a.py", "/repo/w.py", "/repo/x.py"}

WriteTokenChoices == {0, 100}

FitModelInfos ==
    {mi \in ModelInfos : mi.supports_vision /\ "input_cost_per_token" \in DOMAIN mi}

\* read_files[1:]
drop_first(rf) == SubSeq(rf, 2, Len(rf))

\* read_files[:-1]
drop_last(rf) == SubSeq(rf, 1, Len(rf) - 1)

\* The test against an empty reservation.
headroom_negative(remaining, reserve) == remaining < 0

\* The test with the boundary on the wrong side.
headroom_at_most(remaining, reserve) == remaining <= reserve

\* session.info.remaining_tokens < self.write_tokens
headroom_insufficient(remaining, reserve) == remaining < reserve

\* Lines 20-25 without the call of self.error.
outcome_never_fails(remaining, reserve, rf, strict) ==
    IF headroom_insufficient(remaining, reserve) /\ Len(drop_last(rf)) > 0
    THEN "recurse"
    ELSE "return"

\* What lines 20-25 do with the session just built.
outcome(remaining, reserve, rf, strict) ==
    IF headroom_insufficient(remaining, reserve)
    THEN IF Len(drop_last(rf)) > 0 THEN "recurse"
         ELSE IF strict THEN "error"
         ELSE "return"
    ELSE "return"

FitInit ==
    /\ model_info \in FitModelInfos
    /\ map_tokens \in MapTokenChoices
    /\ orig_read_files \in SeqsBetween(ReadCandidates, 0, MaxCandidates)
    /\ write_files \in DistinctSeqsBetween(WriteCandidates, 0, MaxWrite)
    /\ write_tokens \in WriteTokenChoices
    /\ error_if_no_context \in BOOLEAN
    /\ read_files = orig_read_files
    /\ pc = "call"
    /\ coder = new_coder
    /\ info = new_info
    /\ loaded_coder = new_coder
    /\ was_read_only = {}
    /\ constructions = 0

\* session = Aider(..., write_files=self.write_files, read_files=read_files)
Construct(s) ==
    /\ s = start(write_files, read_files, model_info, map_tokens)
    /\ coder' = s.coder
    /\ info' = s.info
    /\ loaded_coder' = s.coder
    /\ was_read_only' = s.coder.abs_read_only_fnames
    /\ constructions' = constructions + 1
    /\ UNCHANGED <<model_info, map_tokens, orig_read_files, write_files,
                   write_tokens, error_if_no_context>>

FitRecurse ==
    /\ pc = "call"
    /\ \E s \in {start(write_files, read_files, model_info, map_tokens)} :
          /\ outcome(s.info.remaining_tokens, write_tokens, read_files,
                     error_if_no_context) = "recurse"
          /\ Construct(s)
    /\ read_files' = drop_last(read_files)
    /\ pc' = "call"

\* self.error("Aider session has no context")
FitError ==
    /\ pc = "call"
    /\ \E s \in {start(write_files, read_files, model_info, map_tokens)} :
          /\ outcome(s.info.remaining_tokens, write_tokens, read_files,
                     error_if_no_context) = "error"
          /\ Construct(s)
    /\ read_files' = read_files
    /\ pc' = "error"

FitReturn ==
    /\ pc = "call"
    /\ \E s \in {start(write_files, read_files, model_info, map_tokens)} :
          /\ outcome(s.info.remaining_tokens, write_tokens, read_files,
                     error_if_no_context) = "return"
          /\ Construct(s)
    /\ read_files' = read_files
    /\ pc' = "returned"

FitNext ==
    \/ FitRecurse
    \/ FitError
    \/ FitReturn

FitSpec == FitInit /\ [][FitNext]_vars

-----------------------------------------------------------------------------
(* Properties of the snapshot, checked under Spec. *)

RECURSIVE SumOf(_, _)
SumOf(recs, field) ==
    IF recs = {} THEN 0
    ELSE LET r == CHOOSE q \in recs : TRUE
         IN  r[field] + SumOf(recs \ {r}, field)

RecordsNamed(rel) == {r \in info.files : r.name = rel}

\* C6: after every load(), total_tokens is system + chat + repo-map tokens plus
\* the tokens of all file records, total_cost is the same sum over the costs,
\* and remaining_tokens is max_tokens - total_tokens (possibly negative).
TotalsIdentity ==
    /\ info.total_tokens = info.system_tokens + info.chat_tokens
                            + info.repo_map_tokens + SumOf(info.files, "tokens")
    /\ info.total_cost = info.system_token_cost + info.chat_token_cost
                          + info.repo_map_token_cost + SumOf(info.files, "cost")
    /\ info.remaining_tokens = max_tokens(model_info) - info.total_tokens

TotalsIdentityWitness ==
    /\ Cardinality(info.files) >= 2
    /\ info.chat_tokens > 0
    /\ info.repo_map_tokens > 0
    /\ info.total_cost > 0
    /\ info.remaining_tokens < 0
    /\ max_tokens(model_info) > 0

TotalOf(c) == load(new_info, c, model_info, map_tokens).total_tokens

\* C8: in a freshly loaded snapshot a read-only image has no record and adds
\* nothing to total_tokens; a writable image has a writable record whose
\* tokens are the image counter's, not those of the rendered text.
ImageAccounting ==
    Fresh =>
      /\ \A p \in coder.abs_read_only_fnames :
            is_image_file(get_rel_fname(p)) =>
              /\ RecordsNamed(get_rel_fname(p)) = {}
              /\ info.total_tokens =
                   TotalOf([coder EXCEPT !.abs_read_only_fnames = @ \ {p}])
      /\ \A p \in coder.abs_fnames :
            is_image_file(get_rel_fname(p)) =>
              /\ RecordsNamed(get_rel_fname(p)) =
                   {[name |-> get_rel_fname(p), readonly |-> FALSE,
                     tokens |-> token_count_for_image(p),
                     cost |-> token_count_for_image(p) * token_unit_cost(model_info)]}
              /\ token_count_for_image(p) # render_tokens(p)

ImageAccountingWitness ==
    /\ Fresh
    /\ "/repo/i.png" \in coder.abs_fnames
    /\ "/repo/i.png" \in was_read_only
    /\ coder.abs_read_only_fnames # {}

\* C9: load() on an engine state the snapshot was already loaded from leaves
\* export() as it is, and a freshly loaded snapshot exports what a snapshot
\* loaded from scratch exports: nothing of an earlier load survives.
LoadIdempotent ==
    /\ [](Fresh => export(info, model_info) =
                     export(load(new_info, coder, model_info, map_tokens), model_info))
    /\ [][(Fresh /\ Reload) =>
             export(info', model_info') = export(info, model_info)]_vars

LoadIdempotentWitness ==
    /\ Fresh
    /\ coder.messages = 0
    /\ was_read_only # {}
    /\ coder.abs_read_only_fnames = {}
    /\ info.files = {}

-----------------------------------------------------------------------------
(* Properties of get_aider_session, checked under FitSpec. *)

\* orig_read_files[:k]
Prefix(k) == SubSeq(orig_read_files, 1, k)

\* Whether the session built for the first k candidates leaves the reserve.
Fits(k) ==
    start(write_files, Prefix(k), model_info, map_tokens).info.remaining_tokens
        >= write_tokens

Max(a, b) == IF a >= b THEN a ELSE b

\* C1: in strict mode a returned session has remaining_tokens >= write_tokens.
StrictReturnHasHeadroom ==
    (pc = "returned" /\ error_if_no_context) =>
        info.remaining_tokens >= write_tokens

StrictReturnHasHeadroomWitness ==
    /\ pc = "returned"
    /\ error_if_no_context
    /\ write_tokens > 0
    /\ Len(read_files) < Len(orig_read_files)
    /\ info.remaining_tokens < 2 * write_tokens

\* C2: the 'no context' error is raised only when no read-only candidate is
\* left in the attempted session and the writable files plus overhead alone
\* leave remaining_tokens < write_tokens.
NoContextOnlyWhenExhausted ==
    pc = "error" =>
        /\ read_files = <<>>
        /\ coder.abs_read_only_fnames = {}
        /\ ~Fits(0)

\* C3: with an empty candidate list and writable files plus overhead above
\* max_tokens, strict mode raises 'no context' and lenient mode returns a
\* session whose remaining_tokens is negative.
ExhaustionSignaling ==
    (pc # "call" /\ orig_read_files = <<>>
       /\ info.total_tokens > max_tokens(model_info)) =>
        IF error_if_no_context
        THEN pc = "error"
        ELSE pc = "returned" /\ info.remaining_tokens < 0

ExhaustionSignalingWitness ==
    /\ pc = "error"
    /\ orig_read_files = <<>>
    /\ max_tokens(model_info) > 0
    /\ info.total_tokens > max_tokens(model_info)
    /\ coder.abs_fnames # {}

\* C4: every invocation builds one session; the k-th is built for the original
\* list minus its last k-1 elements, so a rejected attempt is followed by one
\* for the same list minus its last element and the final list is a prefix of
\* the original; a pending invocation can always take its step, each step
\* shortens the pending list, and at most max(1, n) sessions are built.
ShrinkInvariant ==
    LET n == Len(orig_read_files)
    IN  /\ constructions <= Max(1, n)
        /\ pc = "call" =>
              /\ read_files = Prefix(n - constructions)
              /\ outcome(start(write_files, read_files, model_info,
                               map_tokens).info.remaining_tokens,
                         write_tokens, read_files, error_if_no_context)
                    \in {"recurse", "error", "return"}
        /\ pc # "call" =>
              /\ read_files = Prefix(Max(0, n - constructions + 1))
              /\ constructions >= 1

ShrinkStep ==
    /\ pc = "call"
    /\ constructions' = constructions + 1
    /\ pc' = "call" =>
          /\ Len(read_files) >= 2
          /\ read_files' = SubSeq(read_files, 1, Len(read_files) - 1)
          /\ info'.remaining_tokens < write_tokens
    /\ pc' # "call" => read_files' = read_files

MonotonicShrink == []ShrinkInvariant /\ [][ShrinkStep]_vars

MonotonicShrinkWitness ==
    /\ pc = "returned"
    /\ Len(orig_read_files) = 3
    /\ constructions = 3
    /\ read_files = <<orig_read_files[1]>>

\* C5: when max_input_tokens is absent from the model metadata,
\* get_aider_session drops no candidate and does not fail for lack of context.
AbsentMaxDisablesEnforcement ==
    ("max_input_tokens" \notin DOMAIN model_info /\ pc # "call") =>
        /\ pc = "returned"
        /\ read_files = orig_read_files

\* C10: a candidate is dropped only while remaining_tokens < write_tokens, so
\* when some prefix of length >= 1 fits the returned session uses the longest
\* one; with max_tokens 1000, overhead 200, write_tokens 100 and candidates
\* priced 400, 300, 250 the read-only set is the first two and 100 remain.
LongestFittingPrefix ==
    /\ (pc # "call" /\ \E k \in 1..Len(orig_read_files) : Fits(k)) =>
          /\ pc = "returned"
          /\ Fits(Len(read_files))
          /\ \A k \in 1..Len(orig_read_files) : Fits(k) => k <= Len(read_files)
    /\ (/\ pc # "call"
        /\ max_tokens(model_info) = 1000
        /\ map_tokens = 0
        /\ write_tokens = 100
        /\ write_files = <<>>
        /\ orig_read_files = <<"/repo/a.py", "/repo/b.py", "/repo/c.py">>) =>
          /\ pc = "returned"
          /\ coder.abs_read_only_fnames = {"/repo/a.py", "/repo/b.py"}
          /\ info.total_tokens = 900
          /\ info.remaining_tokens = 100

LongestFittingPrefixWitness ==
    /\ pc = "returned"
    /\ orig_read_files = <<"/repo/a.py", "/repo/b.py", "/repo/c.py">>
    /\ write_files = <<>>
    /\ map_tokens = 0
    /\ info.remaining_tokens = write_tokens
    /\ write_tokens = 100
    /\ read_files = <<"/repo/a.py", "/repo/b.py">>

=============================================================================
